---- MODULE Spec2Model ----
(***************************************************************************)
(* Model of the superhub hosting-go client library: the base client        *)
(* (client.go), the credential strategies, and the generic request /       *)
(* response pipeline (request.go).                                         *)
(*                                                                         *)
(* Go strings that the code takes apart (URLs, paths, methods) are         *)
(* sequences of one-character strings; strings the code formats, copies    *)
(* or compares (header values, status lines, error texts) are sequences    *)
(* of parts; header names and type names are TLA+ strings.                 *)
(***************************************************************************)
EXTENDS Integers, Sequences, FiniteSets, TLC

VARIABLES
    client,      \* the Client struct: Credentials, BaseURL, HttpClient
    pc,          \* position of the invocation in flight
    call,        \* the arguments of the invocation in flight
    request,     \* the *http.Request of the invocation
    response,    \* the *http.Response the transport returned
    result,      \* what the invocation returns: value and error
    trace,       \* what the invocation did: authorizations, dispatches, body reads
    urlPc,       \* position of the stand-alone GetEndpointURL call
    urlIn,       \* its receiver's BaseURL and its argument
    urlOut,      \* its return values
    got,         \* what the accessors of the client returned when called on their own
    server,      \* a Server value a caller holds
    frozen,      \* what IsFrozenByUser returned for it
    other,       \* a second invocation on the same client, while it is not running
    running      \* which of the two invocations the other variables describe

vars == <<client, pc, call, request, response, result, trace, urlPc, urlIn, urlOut,
          got, server, frozen, other, running>>
pipelineVars == <<client, pc, call, request, response, result, trace>>
urlVars == <<urlPc, urlIn, urlOut>>
methodVars == <<got, server, frozen>>
concVars == <<other, running>>

NIL == "nil"

(***************************************************************************)
(* Bounds                                                                  *)
(***************************************************************************)
MaxEndpointLen == 4
MaxBasePathLen == 3

(***************************************************************************)
(* Strings as character sequences                                          *)
(***************************************************************************)
Digits == {"0", "1", "2", "3", "4", "5", "6", "7", "8", "9"}
Letters == {"a", "b", "c", "d", "e", "f", "g", "h", "i", "j", "k", "l", "m",
            "n", "o", "p", "q", "r", "s", "t", "u", "v", "w", "x", "y", "z"}

HasPrefix(s, p) == Len(s) >= Len(p) /\ SubSeq(s, 1, Len(p)) = p
Tail0(s, n) == SubSeq(s, n + 1, Len(s))
Contains(s, ch) == \E i \in 1..Len(s) : s[i] = ch
Index(s, ch) == IF Contains(s, ch)
                THEN CHOOSE i \in 1..Len(s) : s[i] = ch /\ \A j \in 1..(i - 1) : s[j] # ch
                ELSE 0
LastIndex(s, ch) == IF Contains(s, ch)
                    THEN CHOOSE i \in 1..Len(s) : s[i] = ch /\ \A j \in (i + 1)..Len(s) : s[j] # ch
                    ELSE 0
StringsUpTo(alphabet, n) == UNION {[1..k -> alphabet] : k \in 0..n}

\* the string literals of the code that the model takes apart, as character sequences
Str(s) ==
    CASE s = "/servers" -> <<"/", "s", "e", "r", "v", "e", "r", "s">>
      [] s = "/nodes" -> <<"/", "n", "o", "d", "e", "s">>
      [] s = "/users" -> <<"/", "u", "s", "e", "r", "s">>
      [] s = "/payments" -> <<"/", "p", "a", "y", "m", "e", "n", "t", "s">>
      [] s = "/blocking" -> <<"/", "b", "l", "o", "c", "k", "i", "n", "g">>
      [] s = "/external" -> <<"/", "e", "x", "t", "e", "r", "n", "a", "l">>
      [] s = "/pricing" -> <<"/", "p", "r", "i", "c", "i", "n", "g">>
      [] s = "/limits" -> <<"/", "l", "i", "m", "i", "t", "s">>
      [] s = "/load" -> <<"/", "l", "o", "a", "d">>
      [] s = "POST" -> <<"P", "O", "S", "T">>
      [] s = "DELETE" -> <<"D", "E", "L", "E", "T", "E">>
      [] s = "GET" -> <<"G", "E", "T">>
      [] s = "PUT" -> <<"P", "U", "T">>

DefaultBaseURL == <<"h","t","t","p","s",":","/","/","a","p","i",".","s","u","p","e","r","h","u","b",
                    ".","h","o","s","t","/","v","1">>

(***************************************************************************)
(* path.Clean and path.Join                                                *)
(***************************************************************************)
RECURSIVE cleanBacktrack(_, _, _)
cleanBacktrack(out, w, dotdot) ==
    IF w > dotdot /\ out[w + 1] # "/" THEN cleanBacktrack(out, w - 1, dotdot) ELSE w

RECURSIVE cleanCopy(_, _, _)
cleanCopy(path, r, out) ==
    IF r < Len(path) /\ path[r + 1] # "/"
    THEN cleanCopy(path, r + 1, Append(out, path[r + 1]))
    ELSE <<r, out>>

RECURSIVE cleanLoop(_, _, _, _, _)
cleanLoop(path, rooted, r, out, dotdot) ==
    LET n == Len(path) IN
    IF r >= n THEN out
    ELSE IF path[r + 1] = "/" THEN cleanLoop(path, rooted, r + 1, out, dotdot)
    ELSE IF path[r + 1] = "." /\ (r + 1 = n \/ path[r + 2] = "/")
         THEN cleanLoop(path, rooted, r + 1, out, dotdot)
    ELSE IF path[r + 1] = "." /\ path[r + 2] = "." /\ (r + 2 = n \/ path[r + 3] = "/")
         THEN IF Len(out) > dotdot
              THEN cleanLoop(path, rooted, r + 2,
                             SubSeq(out, 1, cleanBacktrack(out, Len(out) - 1, dotdot)), dotdot)
              ELSE IF ~rooted
                   THEN LET o2 == (IF Len(out) > 0 THEN Append(out, "/") ELSE out) \o <<".", ".">>
                        IN cleanLoop(path, rooted, r + 2, o2, Len(o2))
                   ELSE cleanLoop(path, rooted, r + 2, out, dotdot)
    ELSE LET o1 == IF (rooted /\ Len(out) # 1) \/ (~rooted /\ Len(out) # 0)
                   THEN Append(out, "/") ELSE out
             cp == cleanCopy(path, r, o1)
         IN cleanLoop(path, rooted, cp[1], cp[2], dotdot)

Clean(path) ==
    IF path = <<>> THEN <<".">>
    ELSE LET rooted == path[1] = "/"
             out == IF rooted THEN cleanLoop(path, TRUE, 1, <<"/">>, 1)
                              ELSE cleanLoop(path, FALSE, 0, <<>>, 0)
         IN IF out = <<>> THEN <<".">> ELSE out

JoinNoClean(a, b) ==
    IF a = <<>> /\ b = <<>> THEN <<>>
    ELSE IF a = <<>> THEN b
    ELSE IF b = <<>> THEN a
    ELSE a \o <<"/">> \o b

Join(a, b) ==
    IF a = <<>> /\ b = <<>> THEN <<>>
    ELSE IF a = <<>> THEN Clean(b)
    ELSE IF b = <<>> THEN Clean(a)
    ELSE Clean(a \o <<"/">> \o b)

(***************************************************************************)
(* net/url: Parse and URL.String                                           *)
(***************************************************************************)
NoURL == [Scheme |-> <<>>, Opaque |-> <<>>, Host |-> <<>>, Path |-> <<>>,
          RawQuery |-> <<>>, ForceQuery |-> FALSE, OmitHost |-> FALSE]

\* getScheme: <<scheme, rest, error>>
RECURSIVE getScheme(_, _)
getScheme(raw, i) ==
    IF i >= Len(raw) THEN <<<<>>, raw, NIL>>
    ELSE LET ch == raw[i + 1] IN
         IF ch \in Letters THEN getScheme(raw, i + 1)
         ELSE IF ch \in Digits \cup {"+", "-", "."}
              THEN IF i = 0 THEN <<<<>>, raw, NIL>> ELSE getScheme(raw, i + 1)
         ELSE IF ch = ":"
              THEN IF i = 0 THEN <<<<>>, <<>>, "missing protocol scheme">>
                   ELSE <<SubSeq(raw, 1, i), Tail0(raw, i + 1), NIL>>
         ELSE <<<<>>, raw, NIL>>

validOptionalPort(port) ==
    \/ port = <<>>
    \/ /\ port[1] = ":"
       /\ \A i \in 2..Len(port) : port[i] \in Digits

\* parseHost: the error of the authority, NIL when it is accepted
parseHost(host) ==
    LET i == LastIndex(host, ":") IN
    IF i # 0 /\ ~validOptionalPort(Tail0(host, i - 1)) THEN "invalid port after host" ELSE NIL

\* the percent escapes of the model's alphabet, as URL.String writes them
EscapedChars == {<<"3", "F">>, <<"2", "5">>, <<"2", "0">>, <<"2", "3">>}
unescapeChar(hex) ==
    IF hex = <<"3", "F">> THEN "?"
    ELSE IF hex = <<"2", "5">> THEN "%"
    ELSE IF hex = <<"2", "0">> THEN " "
    ELSE "#"

\* unescape(path, encodePath): a "%" not followed by two hex digits is an error;
\* the model knows the hex pairs of EscapedChars
badEscape(s) ==
    \E i \in 1..Len(s) :
        /\ s[i] = "%"
        /\ \/ i + 2 > Len(s)
           \/ <<s[i + 1], s[i + 2]>> \notin EscapedChars

RECURSIVE unescape(_)
unescape(s) ==
    IF s = <<>> THEN <<>>
    ELSE IF s[1] = "%" THEN <<unescapeChar(<<s[2], s[3]>>)>> \o unescape(Tail0(s, 3))
    ELSE <<s[1]>> \o unescape(Tail(s))

\* URL.setPath: Path holds the unescaped path
setPath(u) ==
    IF badEscape(u.Path) THEN [url |-> NoURL, err |-> "invalid URL escape"]
    ELSE [url |-> [u EXCEPT !.Path = unescape(u.Path)], err |-> NIL]

\* url.Parse
\* Parse, after the scheme and the query are split off: the authority and the path
parseRest(scheme, rest, rawQuery, force, hasAuthority, k) ==
    LET afterSlashes == Tail0(rest, 2) IN
    [Scheme |-> scheme, Opaque |-> <<>>,
     Host |-> IF ~hasAuthority THEN <<>>
              ELSE IF k = 0 THEN afterSlashes ELSE SubSeq(afterSlashes, 1, k - 1),
     Path |-> IF ~hasAuthority THEN rest
              ELSE IF k = 0 THEN <<>> ELSE Tail0(afterSlashes, k - 1),
     RawQuery |-> rawQuery, ForceQuery |-> force,
     OmitHost |-> ~hasAuthority /\ scheme # <<>> /\ HasPrefix(rest, <<"/">>)]

hostChecked(u) ==
    IF parseHost(u.Host) # NIL THEN [url |-> NoURL, err |-> parseHost(u.Host)]
    ELSE setPath(u)

firstSegment(rest) ==
    IF Index(rest, "/") = 0 THEN rest ELSE SubSeq(rest, 1, Index(rest, "/") - 1)

parseAfterQuery(scheme, rest, rawQuery, force) ==
    IF ~HasPrefix(rest, <<"/">>) /\ scheme # <<>>
    THEN [url |-> [NoURL EXCEPT !.Scheme = scheme, !.Opaque = rest,
                                !.RawQuery = rawQuery, !.ForceQuery = force],
          err |-> NIL]
    ELSE IF ~HasPrefix(rest, <<"/">>) /\ Contains(firstSegment(rest), ":")
    THEN [url |-> NoURL, err |-> "first path segment in URL cannot contain colon"]
    ELSE hostChecked(parseRest(scheme, rest, rawQuery, force,
                               (scheme # <<>> \/ ~HasPrefix(rest, <<"/", "/", "/">>))
                               /\ HasPrefix(rest, <<"/", "/">>),
                               Index(Tail0(rest, 2), "/")))

parseAfterScheme(scheme, afterScheme, q) ==
    parseAfterQuery(scheme,
                    IF q = 0 THEN afterScheme ELSE SubSeq(afterScheme, 1, q - 1),
                    IF q = 0 THEN <<>> ELSE Tail0(afterScheme, q),
                    q # 0 /\ q = Len(afterScheme))

parseScheme(gs) ==
    IF gs[3] # NIL THEN [url |-> NoURL, err |-> gs[3]]
    ELSE parseAfterScheme(gs[1], gs[2], Index(gs[2], "?"))

Parse(rawURL) ==
    IF rawURL = <<>> THEN [url |-> NoURL, err |-> NIL]
    ELSE parseScheme(getScheme(rawURL, 0))

\* escape(path, encodePath): the characters of the model's alphabet that a path escapes
escapeChar(ch) ==
    IF ch = "?" THEN <<"%", "3", "F">>
    ELSE IF ch = "%" THEN <<"%", "2", "5">>
    ELSE IF ch = " " THEN <<"%", "2", "0">>
    ELSE IF ch = "#" THEN <<"%", "2", "3">>
    ELSE <<ch>>

RECURSIVE EscapedPath(_)
EscapedPath(path) ==
    IF path = <<>> THEN <<>> ELSE escapeChar(Head(path)) \o EscapedPath(Tail(path))

\* URL.String up to the path: scheme, "//" and host
stringHead(u) ==
    (IF u.Scheme # <<>> THEN u.Scheme \o <<":">> ELSE <<>>)
    \o (IF (u.Scheme # <<>> \/ u.Host # <<>>) /\ ~(u.OmitHost /\ u.Host = <<>>)
        THEN (IF u.Host # <<>> \/ u.Path # <<>> THEN <<"/", "/">> ELSE <<>>) \o u.Host
        ELSE <<>>)

stringPath(u, head, path) ==
    head
    \o (IF path # <<>> /\ path[1] # "/" /\ u.Host # <<>> THEN <<"/">> ELSE <<>>)
    \o (IF head = <<>> /\ Contains(firstSegment(path), ":") THEN <<".", "/">> ELSE <<>>)
    \o path

String(u) ==
    (IF u.Opaque # <<>> THEN u.Scheme \o <<":">> \o u.Opaque
     ELSE stringPath(u, stringHead(u), EscapedPath(u.Path)))
    \o (IF u.ForceQuery \/ u.RawQuery # <<>> THEN <<"?">> \o u.RawQuery ELSE <<>>)

(***************************************************************************)
(* Go strings the code formats are sequences of parts; the string is the   *)
(* concatenation of the parts, "" is the empty sequence.                   *)
(***************************************************************************)
RECURSIVE Itoa(_)
Itoa(n) ==
    LET d == <<"0", "1", "2", "3", "4", "5", "6", "7", "8", "9">>[(n % 10) + 1] IN
    IF n < 10 THEN <<d>> ELSE Append(Itoa(n \div 10), d)

HexDigit(n) == <<"0", "1", "2", "3", "4", "5", "6", "7", "8", "9",
                 "a", "b", "c", "d", "e", "f">>[n + 1]

\* uuid.UUID is an array of 16 bytes; String() prints 8-4-4-4-12 hex digits
RECURSIVE hexBytes(_, _, _)
hexBytes(id, from, to) ==
    IF from > to THEN <<>>
    ELSE <<HexDigit(id[from] \div 16), HexDigit(id[from] % 16)>> \o hexBytes(id, from + 1, to)

UUIDString(id) ==
    hexBytes(id, 1, 4) \o <<"-">> \o hexBytes(id, 5, 6) \o <<"-">> \o hexBytes(id, 7, 8)
    \o <<"-">> \o hexBytes(id, 9, 10) \o <<"-">> \o hexBytes(id, 11, 16)

NilUUID == [i \in 1..16 |-> 0]
UUIDs == {[i \in 1..16 |-> IF i = 1 THEN 171 ELSE IF i = 16 THEN 9 ELSE 0],
          [i \in 1..16 |-> 16 * i - 1]}
AccessTokens == {<<"c2VjcmV0">>}

(***************************************************************************)
(* Credentials (the Credentials interface and its two implementations)     *)
(***************************************************************************)
NilCredentials == [kind |-> "nil", ID |-> NilUUID, AccessToken |-> <<>>]
EmptyCredentials == [kind |-> "EmptyCredentials", ID |-> NilUUID, AccessToken |-> <<>>]
NewPersistentToken(id, accessToken) ==
    [kind |-> "PersistentToken", ID |-> id, AccessToken |-> accessToken]

GetCredentialsNoDefault(c) == c.Credentials

GetCredentials(c) == IF c.Credentials = NilCredentials THEN EmptyCredentials ELSE c.Credentials

(***************************************************************************)
(* http.Header: canonical header name -> list of values                    *)
(***************************************************************************)
HeaderNames == {"Accept", "Authorization", "Content-Type", "X-Access-Token"}
NoHeader == [k \in HeaderNames |-> <<>>]
HeaderSet(h, key, value) == [h EXCEPT ![key] = <<value>>]
HeaderGet(h, key) == IF h[key] = <<>> THEN <<>> ELSE h[key][1]

ApplicationJSON == <<"application/json">>

AuthorizeRequestSwapped(credentials, req) ==
    IF credentials.kind = "PersistentToken"
    THEN [req EXCEPT !.Header =
              HeaderSet(HeaderSet(req.Header, "X-Access-Token",
                                  <<"Persistent", " ">> \o UUIDString(credentials.ID)),
                        "Authorization", credentials.AccessToken)]
    ELSE req

\* Credentials.AuthorizeRequest, dispatched on the dynamic type (never called on nil here)
AuthorizeRequest(credentials, req) ==
    IF credentials.kind = "PersistentToken"
    THEN [req EXCEPT !.Header =
              HeaderSet(HeaderSet(req.Header, "Authorization",
                                  <<"Persistent", " ">> \o UUIDString(credentials.ID)),
                        "X-Access-Token", credentials.AccessToken)]
    ELSE req

(***************************************************************************)
(* encoding/json: documents and json.Unmarshal into a struct               *)
(***************************************************************************)
FieldNames == {"id", "name", "error", "message", "path", "status", "timestamp",
               "memory", "load", "amount"}

JAbsent == [t |-> "absent", n |-> 0, s |-> <<>>]
JNum(n) == [t |-> "num", n |-> n, s |-> <<>>]
JStr(s) == [t |-> "str", n |-> 0, s |-> s]
GoTime(unix) == [t |-> "time", n |-> unix, s |-> <<>>]

NoFields == [f \in FieldNames |-> JAbsent]
\* a document: kind "empty" (zero bytes), "malformed", "null", "array" or "object"
Doc(kind) == [kind |-> kind, fields |-> NoFields]
Object(fields) == [kind |-> "object", fields |-> fields]

\* struct shapes: JSON key -> Go type of the field
ShapeOf(T) ==
    CASE T = "Entity" -> [id |-> "num", name |-> "str"]
      [] T = "ErrorResponse" -> [error |-> "str", message |-> "str", path |-> "str",
                                 status |-> "num", timestamp |-> "time"]
      [] T = "struct{}" -> <<>>
      [] T \in {"Server", "ExternalServer", "Node", "User"} -> [id |-> "num"]
      [] T = "Payment" -> [id |-> "str"]
      [] T = "Resources" -> [memory |-> "num"]
      [] T = "NodeLoad" -> [load |-> "num"]
      [] OTHER -> <<>>

\* T is a slice type: its JSON is an array, its elements are not modelled
IsSlice(T) == T \in {"[]Server", "[]Node", "[]Payment"}

\* time.Time.UnmarshalJSON: RFC 3339 text to an instant (seconds since 2024-01-01T00:00:00Z)
ParseRFC3339(s) ==
    CASE s = <<"2024-01-01T00:00:00Z">> -> 0
      [] s = <<"2024-01-01T00:01:40Z">> -> 100
      [] s = <<"2024-01-01T01:00:00+01:00">> -> 0

ZeroOf(goType) ==
    CASE goType = "num" -> JNum(0)
      [] goType = "str" -> JStr(<<>>)
      [] goType = "time" -> GoTime(0)

\* does the JSON value fit a field of the Go type (null fits everything and changes nothing)
Fits(v, goType) ==
    \/ v.t \in {"absent", "null"}
    \/ goType = "num" /\ v.t = "num"
    \/ goType = "str" /\ v.t = "str"
    \/ goType = "time" /\ v.t = "str" /\ v.s \in {<<"2024-01-01T00:00:00Z">>,
                                                      <<"2024-01-01T00:01:40Z">>,
                                                      <<"2024-01-01T01:00:00+01:00">>}

FieldValue(v, goType) ==
    IF v.t \in {"absent", "null"} THEN ZeroOf(goType)
    ELSE IF goType = "time" THEN GoTime(ParseRFC3339(v.s))
    ELSE v

\* a (pointer to a) decoded struct; NilValue is the nil pointer
NilValue == [isNil |-> TRUE, type |-> "", fields |-> NoFields]
StructValue(T, fields) == [isNil |-> FALSE, type |-> T, fields |-> fields]

ZeroStruct(T) ==
    StructValue(T, [f \in FieldNames |->
                        IF f \in DOMAIN ShapeOf(T) THEN ZeroOf(ShapeOf(T)[f]) ELSE JAbsent])

\* json.Unmarshal(body, &data) with data the zero value of struct T
Unmarshal(body, T) ==
    LET shape == ShapeOf(T) IN
    CASE body.kind = "empty" -> [data |-> ZeroStruct(T), err |-> <<"unexpected end of JSON input">>]
      [] body.kind = "malformed" -> [data |-> ZeroStruct(T), err |-> <<"invalid character">>]
      [] body.kind = "null" -> [data |-> ZeroStruct(T), err |-> <<>>]
      [] body.kind = "array" ->
            [data |-> ZeroStruct(T),
             err |-> IF IsSlice(T) THEN <<>>
                     ELSE <<"json: cannot unmarshal array into Go value">>]
      [] body.kind = "object" /\ IsSlice(T) ->
            [data |-> ZeroStruct(T), err |-> <<"json: cannot unmarshal object into Go value">>]
      [] body.kind = "object" /\ ~IsSlice(T) ->
            [data |-> StructValue(T, [f \in FieldNames |->
                          IF f \in DOMAIN shape
                          THEN IF Fits(body.fields[f], shape[f])
                               THEN FieldValue(body.fields[f], shape[f])
                               ELSE ZeroOf(shape[f])
                          ELSE JAbsent]),
             err |-> IF \A f \in DOMAIN shape : Fits(body.fields[f], shape[f])
                     THEN <<>>
                     ELSE <<"json: cannot unmarshal field into Go struct field">>]

(***************************************************************************)
(* error values                                                            *)
(***************************************************************************)
NoError == [type |-> "nil", msg |-> <<>>, ptr |-> NilValue]
\* an *ErrorResponse held in an error interface; ptr may be the nil pointer
ErrorResponseError(ptr) == [type |-> "*ErrorResponse", msg |-> <<>>, ptr |-> ptr]

\* ErrorResponse.Error (request.go) as fmt prints it with %s: a nil receiver makes the
\* method panic, and fmt recovers the panic of a nil pointer receiver as "<nil>"
ErrorText(e) ==
    CASE e.type = "errorString" -> e.msg
      [] e.type = "*ErrorResponse" ->
            IF e.ptr.isNil THEN <<"<nil>">>
            ELSE <<"request error: ">> \o Itoa(e.ptr.fields["status"].n) \o <<" (">>
                 \o e.ptr.fields["error"].s \o <<") on path ">> \o e.ptr.fields["path"].s
                 \o <<": ">> \o e.ptr.fields["message"].s
      [] OTHER -> <<"%!s(<nil>)">>

\* fmt.Errorf(prefix + "%s", text): a new error that holds only the formatted text
Errorf(prefix, text) == [type |-> "errorString", msg |-> <<prefix>> \o text, ptr |-> NilValue]

(***************************************************************************)
(* request.go: classification and decoding of the response                 *)
(***************************************************************************)
\* what a response-handling function returns, with what it did to the body
Outcome(value, err, bodyRead, decoded) ==
    [value |-> value, err |-> err, bodyRead |-> bodyRead, decoded |-> decoded]

getContentType(resp) == HeaderGet(resp.Header, "Content-Type")

\* %q of the content type
Quote(s) == <<"\"">> \o s \o <<"\"">>

parseResponseJSONIgnoresError(body, T) ==
    Outcome(Unmarshal(body, T).data, NoError, TRUE, TRUE)

parseResponseJSON(body, T) ==
    LET u == Unmarshal(body, T) IN
    IF u.err # <<>>
    THEN Outcome(NilValue, Errorf("parsing response body: ", u.err), TRUE, TRUE)
    ELSE Outcome(u.data, NoError, TRUE, TRUE)

parseResponseNoEmptyCase(resp, T) ==
    IF resp.readErr # <<>>
    THEN Outcome(NilValue, Errorf("reading response body: ", resp.readErr), TRUE, FALSE)
    ELSE LET contentType == getContentType(resp) IN
         IF contentType = ApplicationJSON THEN parseResponseJSON(resp.Body, T)
         ELSE Outcome(NilValue, Errorf("unsupported content type: ", Quote(contentType)),
                      TRUE, FALSE)

parseResponseMediaType(resp, T) ==
    IF resp.readErr # <<>>
    THEN Outcome(NilValue, Errorf("reading response body: ", resp.readErr), TRUE, FALSE)
    ELSE LET contentType == getContentType(resp) IN
         IF contentType \in {ApplicationJSON, <<"application/json; charset=utf-8">>}
         THEN parseResponseJSON(resp.Body, T)
         ELSE IF contentType = <<>> THEN Outcome(NilValue, NoError, TRUE, FALSE)
         ELSE Outcome(NilValue, Errorf("unsupported content type: ", Quote(contentType)),
                      TRUE, FALSE)

parseResponse(resp, T) ==
    IF resp.readErr # <<>>
    THEN Outcome(NilValue, Errorf("reading response body: ", resp.readErr), TRUE, FALSE)
    ELSE LET contentType == getContentType(resp) IN
         IF contentType = ApplicationJSON THEN parseResponseJSON(resp.Body, T)
         ELSE IF contentType = <<>> THEN Outcome(NilValue, NoError, TRUE, FALSE)
         ELSE Outcome(NilValue, Errorf("unsupported content type: ", Quote(contentType)),
                      TRUE, FALSE)

handleErrorResponse(resp) == parseResponse(resp, "ErrorResponse")

handleResponseNoUpperBound(resp, T) ==
    IF resp.StatusCode >= 400
    THEN LET e == handleErrorResponse(resp) IN
         IF e.err # NoError
         THEN Outcome(NilValue, Errorf("unsuccessful HTTP status: ", resp.Status),
                      e.bodyRead, e.decoded)
         ELSE Outcome(NilValue, ErrorResponseError(e.value), e.bodyRead, e.decoded)
    ELSE parseResponse(resp, T)

handleResponseOnly2xx(resp, T) ==
    IF resp.StatusCode >= 400 /\ resp.StatusCode < 500
    THEN LET e == handleErrorResponse(resp) IN
         IF e.err # NoError
         THEN Outcome(NilValue, Errorf("unsuccessful HTTP status: ", resp.Status),
                      e.bodyRead, e.decoded)
         ELSE Outcome(NilValue, ErrorResponseError(e.value), e.bodyRead, e.decoded)
    ELSE IF resp.StatusCode >= 300
    THEN Outcome(NilValue, Errorf("internal server error: ", resp.Status), FALSE, FALSE)
    ELSE parseResponse(resp, T)

handleResponse(resp, T) ==
    IF resp.StatusCode >= 400 /\ resp.StatusCode < 500
    THEN LET e == handleErrorResponse(resp) IN
         IF e.err # NoError
         THEN Outcome(NilValue, Errorf("unsuccessful HTTP status: ", resp.Status),
                      e.bodyRead, e.decoded)
         ELSE Outcome(NilValue, ErrorResponseError(e.value), e.bodyRead, e.decoded)
    ELSE IF resp.StatusCode >= 500
    THEN Outcome(NilValue, Errorf("internal server error: ", resp.Status), FALSE, FALSE)
    ELSE parseResponse(resp, T)

processResponseAlwaysWraps(resp, T) ==
    LET h == handleResponse(resp, T) IN
    Outcome(h.value, Errorf("handling response: ", ErrorText(h.err)), h.bodyRead, h.decoded)

\* the tail of ProcessRequest: handleResponse and the wrapping of its error
processResponse(resp, T) ==
    LET h == handleResponse(resp, T) IN
    IF h.err # NoError
    THEN Outcome(NilValue, Errorf("handling response: ", ErrorText(h.err)), h.bodyRead, h.decoded)
    ELSE Outcome(h.value, NoError, h.bodyRead, h.decoded)

(***************************************************************************)
(* client.go                                                               *)
(***************************************************************************)
GetBaseURL(c) == IF c.BaseURL # <<>> THEN c.BaseURL ELSE DefaultBaseURL

GetHttpClient(c) == IF c.HttpClient = NIL THEN "http.Client{}" ELSE c.HttpClient

joinEndpoint(parsed, endpoint) ==
    IF parsed.err # NIL
    THEN [url |-> <<>>, err |-> Errorf("parsing url: ", <<parsed.err>>)]
    ELSE [url |-> String([parsed.url EXCEPT !.Path = Join(parsed.url.Path, endpoint)]),
          err |-> NoError]

GetEndpointURL(c, endpoint) == joinEndpoint(Parse(GetBaseURL(c)), endpoint)

NewClientWithCredentials(credentials) ==
    [Credentials |-> credentials, BaseURL |-> <<>>, HttpClient |-> NIL]

NewClient == [Credentials |-> NilCredentials, BaseURL |-> <<>>, HttpClient |-> NIL]

(***************************************************************************)
(* request.go: building the request                                        *)
(***************************************************************************)
\* the body argument (an `any`): untyped nil, a nil pointer, a struct, or a value
\* encoding/json cannot encode (a channel, a function)
NilBody == [kind |-> "nil", fields |-> NoFields]
NilPointerBody == [kind |-> "nilptr", fields |-> NoFields]
UnsupportedBody == [kind |-> "unsupported", fields |-> NoFields]
StructBody(fields) == [kind |-> "value", fields |-> fields]

\* the io.Reader of a request: NoReader is the nil interface
NoReader == [isNil |-> TRUE, doc |-> Doc("empty")]
Reader(doc) == [isNil |-> FALSE, doc |-> doc]

marshalRequestBody(data) ==
    CASE data.kind = "unsupported" ->
            [reader |-> NoReader, err |-> Errorf("json: unsupported type", <<>>)]
      [] data.kind = "nilptr" -> [reader |-> Reader(Doc("null")), err |-> NoError]
      [] OTHER -> [reader |-> Reader(Object(data.fields)), err |-> NoError]


NoRequest == [Method |-> <<>>, URL |-> NoURL, Header |-> NoHeader, Body |-> NoReader]

newRequestParsed(m, u, body) ==
    IF \E i \in 1..Len(m) : m[i] \notin
           (Letters \cup {"A", "B", "C", "D", "E", "G", "L", "O", "P", "S", "T", "U"}
            \cup Digits \cup {"-", "_", ".", "+"})
    THEN [req |-> NoRequest, err |-> Errorf("net/http: invalid method", <<>>)]
    ELSE IF u.err # NIL
    THEN [req |-> NoRequest, err |-> Errorf("parse: ", <<u.err>>)]
    ELSE [req |-> [Method |-> m, URL |-> u.url, Header |-> NoHeader, Body |-> body],
          err |-> NoError]

\* http.NewRequest
NewRequest(method, url, body) ==
    newRequestParsed(IF method = <<>> THEN <<"G", "E", "T">> ELSE method, Parse(url), body)

createRequestAlwaysJSON(r, reader) ==
    IF r.err # NoError
    THEN [req |-> NoRequest, err |-> Errorf("creating HTTP request: ", ErrorText(r.err))]
    ELSE [req |-> [r.req EXCEPT !.Header = HeaderSet(r.req.Header, "Content-Type",
                                                     ApplicationJSON)],
          err |-> NoError]

\* InvokeEndpoint, lines 27-36: the request is created and its content type is set
createRequest(r, reader) ==
    IF r.err # NoError
    THEN [req |-> NoRequest, err |-> Errorf("creating HTTP request: ", ErrorText(r.err))]
    ELSE [req |-> IF ~reader.isNil
                  THEN [r.req EXCEPT !.Header = HeaderSet(r.req.Header, "Content-Type",
                                                          ApplicationJSON)]
                  ELSE r.req,
          err |-> NoError]

marshalledIgnoresError(method, url, m) ==
    createRequest(NewRequest(method, url, m.reader), m.reader)

\* InvokeEndpoint, lines 18-25: the body reader
marshalled(method, url, m) ==
    IF m.err # NoError
    THEN [req |-> NoRequest, err |-> Errorf("making request body reader: ", ErrorText(m.err))]
    ELSE createRequest(NewRequest(method, url, m.reader), m.reader)

resolvedIgnoresURLError(u, method, body) ==
    marshalled(method, u.url,
               IF body # NilBody THEN marshalRequestBody(body)
                                 ELSE [reader |-> NoReader, err |-> NoError])

\* InvokeEndpoint, lines 13-16: the endpoint URL
resolved(u, method, body) ==
    IF u.err # NoError
    THEN [req |-> NoRequest, err |-> Errorf("making endpoint URL: ", ErrorText(u.err))]
    ELSE marshalled(method, u.url,
                    IF body # NilBody THEN marshalRequestBody(body)
                                      ELSE [reader |-> NoReader, err |-> NoError])

\* InvokeEndpoint up to the call of ProcessRequest: the request, or the error returned
buildRequest(c, method, path, body) == resolved(GetEndpointURL(c, path), method, body)

(***************************************************************************)
(* server.go and its second variant of the Server shape                    *)
(***************************************************************************)
IsFrozenByUserOnlyFrozenAt(s) == s.FrozenAt.Valid

\* (s *Server) IsFrozenByUser() of the Server with the nested ServerCost
IsFrozenByUserNested(s) == s.FrozenAt.Valid /\ s.Cost.Freeze.Valid

\* (s *Server) IsFrozenByUser() of the Server with the flat FreezeCost field
IsFrozenByUserFlat(s) == s.FrozenAt.Valid /\ s.FreezeCost.Valid

\* the method of whichever Server type the value has
IsFrozenByUser(s) ==
    IF s.variant = "nested" THEN IsFrozenByUserNested(s) ELSE IsFrozenByUserFlat(s)

(***************************************************************************)
(* The inputs of the model                                                 *)
(***************************************************************************)
LocalBaseURL == <<"h","t","t","p",":","/","/","1","2","7",".","0",".","0",".","1",":","8","0","8","0",
                  "/","v","3","/">>
MalformedBaseURL == <<":","/","/","h">>
BadPortBaseURL == <<"h","t","t","p",":","/","/","h",":","x">>
MalformedBaseURLs == {MalformedBaseURL, BadPortBaseURL}

CredentialsSet ==
    {NilCredentials, EmptyCredentials}
    \cup {NewPersistentToken(id, tok) : id \in UUIDs, tok \in AccessTokens}


Paths == {<<"/","s","e","r","v","e","r","s","/","5">>}
OwnerIDs == {1, 42}

\* requests a caller hands to ProcessRequest directly
CallerRequests ==
    {[Method |-> Str("GET"), URL |-> Parse(LocalBaseURL).url,
      Header |-> [NoHeader EXCEPT !["Accept"] = << <<"*/*">> >>,
                                  !["Authorization"] = << <<"Basic b2xk">>, <<"Bearer old">> >>,
                                  !["X-Access-Token"] = << <<"stale">> >>],
      Body |-> NoReader],
     [Method |-> Str("PUT"), URL |-> Parse(LocalBaseURL).url,
      Header |-> [NoHeader EXCEPT !["Content-Type"] = <<ApplicationJSON>>],
      Body |-> Reader(Doc("null"))]}

StatusCodes == {200, 302, 399, 400, 404, 499, 500, 503}
StatusLine(code) ==
    CASE code = 200 -> <<"200 OK">>
      [] code = 302 -> <<"302 Found">>
      [] code = 399 -> <<"399 Unassigned">>
      [] code = 400 -> <<"400 Bad Request">>
      [] code = 404 -> <<"404 Not Found">>
      [] code = 499 -> <<"499 Client Closed Request">>
      [] code = 500 -> <<"500 Internal Server Error">>
      [] code = 503 -> <<"503 Service Unavailable">>

ResponseHeaders ==
    {NoHeader}
    \cup {[NoHeader EXCEPT !["Content-Type"] = <<ct>>] :
              ct \in {ApplicationJSON, <<"application/json; charset=utf-8">>,
                      <<"text/html">>, <<>>}}

ErrorBody == Object([NoFields EXCEPT !["error"] = JStr(<<"Not Found">>),
                                     !["message"] = JStr(<<"no such server">>),
                                     !["path"] = JStr(<<"/v3/servers/5">>),
                                     !["status"] = JNum(404),
                                     !["timestamp"] = JStr(<<"2024-01-01T00:01:40Z">>)])

NoResponse == [StatusCode |-> 0, Status |-> <<>>, Header |-> NoHeader,
               Body |-> Doc("empty"), readErr |-> <<>>]

\* what the transport can answer; a body whose read fails is cut short
Responses ==
    {[StatusCode |-> code, Status |-> StatusLine(code), Header |-> h, Body |-> b,
      readErr |-> <<>>] : code \in StatusCodes, h \in ResponseHeaders, b \in (
             {Doc("empty"), Doc("malformed"), Doc("null"), Doc("array"), Object(NoFields),
              Object([NoFields EXCEPT !["id"] = JNum(1)]),
              Object([NoFields EXCEPT !["id"] = JStr(<<"one">>), !["name"] = JStr(<<"web">>)]),
              ErrorBody,
              Object([ErrorBody.fields EXCEPT !["timestamp"] = JStr(<<"yesterday">>)])})}
    \cup
    {[StatusCode |-> code, Status |-> StatusLine(code), Header |-> h, Body |-> Doc("malformed"),
      readErr |-> <<"unexpected EOF">>] : code \in StatusCodes, h \in ResponseHeaders}

TransportErrors == {<<"dial tcp: connection refused">>, <<"context deadline exceeded">>}

(***************************************************************************)
(* The invocation as a state machine                                       *)
(***************************************************************************)
\* the entity method that delegates to a method of the client, and the entity's ID
NoReceiver == [method |-> "", ID |-> 0]
\* the method of the client that invokes the endpoint, and its arguments
NoWrapper == [name |-> "", from |-> NoReceiver, id |-> <<>>, external |-> FALSE,
              body |-> NilBody]
NoCall == [wrapper |-> NoWrapper, entry |-> "", T |-> "", method |-> <<>>, path |-> <<>>,
           body |-> NilBody]
NoResult == [value |-> NilValue, err |-> NoError]
\* bodyClosed: response.Body.Close() was called; no line of request.go calls it
NoTrace == [authorized |-> 0, dispatched |-> 0, bodyRead |-> FALSE, decoded |-> FALSE,
            bodyClosed |-> FALSE]

\* no accessor has been called
NoGot == [called |-> {}, baseURL |-> <<>>, credentials |-> NilCredentials, httpClient |-> NIL]
\* null.Time and null.Float: the value and whether it is present
Null(valid, v) == [Valid |-> valid, V |-> v]
NoServer == [variant |-> "", FrozenAt |-> Null(FALSE, 0),
             Cost |-> [Base |-> 0, Freeze |-> Null(FALSE, 0)], FreezeCost |-> Null(FALSE, 0)]
NoFrozen == [called |-> FALSE, value |-> FALSE]
\* an invocation that has not started
IdleInvocation == [pc |-> "idle", call |-> NoCall, request |-> NoRequest,
                   response |-> NoResponse, result |-> NoResult, trace |-> NoTrace]

NoURLCall == [scheme |-> <<>>, host |-> <<>>, basePath |-> <<>>, endpoint |-> <<>>]
NoURLResult == [url |-> <<>>, err |-> NoError]

Init ==
    /\ client \in {[Credentials |-> cr, BaseURL |-> b, HttpClient |-> NIL] :
                       cr \in CredentialsSet, b \in {<<>>, LocalBaseURL} \cup MalformedBaseURLs}
    /\ pc = "idle"
    /\ call = NoCall
    /\ request = NoRequest
    /\ response = NoResponse
    /\ result = NoResult
    /\ trace = NoTrace
    /\ urlPc = "off"
    /\ urlIn = NoURLCall
    /\ urlOut = NoURLResult
    /\ got = NoGot
    /\ server = NoServer
    /\ frozen = NoFrozen
    /\ other = IdleInvocation
    /\ running = 1

invokeEndpointCachesURL(wrapper, entry, T, method, path, body) ==
    /\ pc = "idle"
    /\ LET b == buildRequest(client, method, path, body) IN
       /\ call' = [wrapper |-> wrapper, entry |-> entry, T |-> T,
                   method |-> method, path |-> path, body |-> body]
       /\ trace' = NoTrace
       /\ IF b.err # NoError
          THEN /\ pc' = "done"
               /\ request' = NoRequest
               /\ result' = [value |-> NilValue, err |-> b.err]
               /\ client' = client
          ELSE /\ pc' = "process"
               /\ request' = b.req
               /\ result' = NoResult
               /\ client' = [client EXCEPT !.BaseURL = String(b.req.URL)]
    /\ UNCHANGED <<response, urlVars, methodVars, concVars>>

\* InvokeEndpoint[T], up to the call of ProcessRequest
invokeEndpoint(wrapper, entry, T, method, path, body) ==
    /\ pc = "idle"
    /\ LET b == buildRequest(client, method, path, body) IN
       /\ call' = [wrapper |-> wrapper, entry |-> entry, T |-> T,
                   method |-> method, path |-> path, body |-> body]
       /\ trace' = NoTrace
       /\ IF b.err # NoError
          THEN /\ pc' = "done"
               /\ request' = NoRequest
               /\ result' = [value |-> NilValue, err |-> b.err]
          ELSE /\ pc' = "process"
               /\ request' = b.req
               /\ result' = NoResult
    /\ UNCHANGED <<client, response, urlVars, methodVars, concVars>>

\* a caller invokes InvokeEndpoint[Entity] or InvokeVoidEndpoint (InvokeEndpoint[struct{}])
Invoke(entry, method, path, body) ==
    invokeEndpoint(NoWrapper, entry, IF entry = "InvokeVoidEndpoint" THEN "struct{}" ELSE "Entity",
                   method, path, body)

\* fmt.Sprintf("%t", b)
FormatBool(b) == IF b THEN <<"t", "r", "u", "e">> ELSE <<"f", "a", "l", "s", "e">>

\* fmt.Sprintf("/users/%d/servers?external=%t", ownerID, external)
OwnedServersPath(ownerID, external) ==
    <<"/", "u", "s", "e", "r", "s", "/">> \o Itoa(ownerID)
    \o <<"/", "s", "e", "r", "v", "e", "r", "s", "?", "e", "x", "t", "e", "r", "n", "a", "l", "=">>
    \o FormatBool(external)

CurrentUserReference == <<"@", "s", "e", "l", "f">>


\* a method of the client: the wrapper's name and arguments, and its call of
\* InvokeEndpoint[T] or InvokeVoidEndpoint; `from` is the entity method that delegated
wrapperCall(name, from, id, external, given, entry, T, method, path, body) ==
    invokeEndpoint([name |-> name, from |-> from, id |-> id, external |-> external,
                    body |-> given],
                   entry, T, method, path, body)

\* server.go
GetServers(from) ==
    wrapperCall("GetServers", from, <<>>, FALSE, NilBody,
                "InvokeEndpoint", "[]Server", Str("GET"), Str("/servers"), NilBody)
GetServer(from, id) ==
    wrapperCall("GetServer", from, Itoa(id), FALSE, NilBody,
                "InvokeEndpoint", "Server", Str("GET"), Str("/servers") \o <<"/">> \o Itoa(id), NilBody)
BlockServer(from, id) ==
    wrapperCall("BlockServer", from, Itoa(id), FALSE, NilBody,
                "InvokeVoidEndpoint", "struct{}", Str("POST"),
                Str("/servers") \o <<"/">> \o Itoa(id) \o Str("/blocking"), NilBody)
UnblockServer(from, id) ==
    wrapperCall("UnblockServer", from, Itoa(id), FALSE, NilBody,
                "InvokeVoidEndpoint", "struct{}", Str("DELETE"),
                Str("/servers") \o <<"/">> \o Itoa(id) \o Str("/blocking"), NilBody)
GetExternalServer(from, internalID) ==
    wrapperCall("GetExternalServer", from, Itoa(internalID), FALSE, NilBody,
                "InvokeEndpoint", "ExternalServer", Str("GET"),
                Str("/servers") \o <<"/">> \o Itoa(internalID) \o Str("/external"), NilBody)
GetServerPricing(from, serverID) ==
    wrapperCall("GetServerPricing", from, Itoa(serverID), FALSE, NilBody,
                "InvokeEndpoint", "ServicePricing", Str("GET"),
                Str("/servers") \o <<"/">> \o Itoa(serverID) \o Str("/pricing"), NilBody)

\* node.go
GetNode(from, id) ==
    wrapperCall("GetNode", from, Itoa(id), FALSE, NilBody,
                "InvokeEndpoint", "Node", Str("GET"), Str("/nodes") \o <<"/">> \o Itoa(id), NilBody)
GetNodes(from) ==
    wrapperCall("GetNodes", from, <<>>, FALSE, NilBody,
                "InvokeEndpoint", "[]Node", Str("GET"), Str("/nodes"), NilBody)
GetNodeLimits(from, id) ==
    wrapperCall("GetNodeLimits", from, Itoa(id), FALSE, NilBody,
                "InvokeEndpoint", "Resources", Str("GET"),
                Str("/nodes") \o <<"/">> \o Itoa(id) \o Str("/limits"), NilBody)
UpdateNodeLimits(from, id, limits) ==
    wrapperCall("UpdateNodeLimits", from, Itoa(id), FALSE, limits,
                "InvokeEndpoint", "Resources", Str("PUT"),
                Str("/nodes") \o <<"/">> \o Itoa(id) \o Str("/limits"), limits)
GetNodeLoad(from, id) ==
    wrapperCall("GetNodeLoad", from, Itoa(id), FALSE, NilBody,
                "InvokeEndpoint", "NodeLoad", Str("GET"),
                Str("/nodes") \o <<"/">> \o Itoa(id) \o Str("/load"), NilBody)
UpdateNodeLoad(from, id, load) ==
    wrapperCall("UpdateNodeLoad", from, Itoa(id), FALSE, load,
                "InvokeEndpoint", "NodeLoad", Str("PUT"),
                Str("/nodes") \o <<"/">> \o Itoa(id) \o Str("/load"), load)

\* payment.go
GetPayments(from) ==
    wrapperCall("GetPayments", from, <<>>, FALSE, NilBody,
                "InvokeEndpoint", "[]Payment", Str("GET"), Str("/payments"), NilBody)
GetUserPayments(from, userID) ==
    wrapperCall("GetUserPayments", from, Itoa(userID), FALSE, NilBody,
                "InvokeEndpoint", "[]Payment", Str("GET"),
                Str("/users") \o <<"/">> \o Itoa(userID) \o Str("/payments"), NilBody)
CreatePayment(from, userID, form) ==
    wrapperCall("CreatePayment", from, Itoa(userID), FALSE, form,
                "InvokeEndpoint", "Payment", Str("POST"),
                Str("/users") \o <<"/">> \o Itoa(userID) \o Str("/payments"), form)

\* the user methods
getUser(name, from, id) ==
    wrapperCall(name, from, id, FALSE, NilBody,
                "InvokeEndpoint", "User", Str("GET"), Str("/users") \o <<"/">> \o id, NilBody)
GetUser(from, id) == getUser("GetUser", from, Itoa(id))
GetCurrentUser(from) == getUser("GetCurrentUser", from, CurrentUserReference)
GetOwnedServers(from, ownerID, external) ==
    wrapperCall("GetOwnedServers", from, Itoa(ownerID), external, NilBody,
                "InvokeEndpoint", "[]Server", Str("GET"),
                OwnedServersPath(ownerID, external), NilBody)

\* the methods of the entities: each calls the method of the client with the entity's ID
ServerGetExternalServer(s) ==
    GetExternalServer([method |-> "Server.GetExternalServer", ID |-> s.ID], s.ID)
ServerGetPricing(s) == GetServerPricing([method |-> "Server.GetPricing", ID |-> s.ID], s.ID)
ServerBlock(s) == BlockServer([method |-> "Server.Block", ID |-> s.ID], s.ID)
ServerUnblock(s) == UnblockServer([method |-> "Server.Unblock", ID |-> s.ID], s.ID)
NodeGetLimits(n) == GetNodeLimits([method |-> "Node.GetLimits", ID |-> n.ID], n.ID)
NodeUpdateLimits(n, limits) ==
    UpdateNodeLimits([method |-> "Node.UpdateLimits", ID |-> n.ID], n.ID, limits)
NodeGetLoad(n) == GetNodeLoad([method |-> "Node.GetLoad", ID |-> n.ID], n.ID)
NodeUpdateLoad(n, load) ==
    UpdateNodeLoad([method |-> "Node.UpdateLoad", ID |-> n.ID], n.ID, load)
UserGetOwnedServers(u, external) ==
    GetOwnedServers([method |-> "User.GetOwnedServers", ID |-> u.ID], u.ID, external)

\* a caller that built its own request calls ProcessRequest[T]
CallProcessRequest(req) ==
    /\ pc = "idle"
    /\ call' = [NoCall EXCEPT !.entry = "ProcessRequest", !.T = "Entity"]
    /\ trace' = NoTrace
    /\ pc' = "process"
    /\ request' = req
    /\ result' = NoResult
    /\ UNCHANGED <<client, response, urlVars, methodVars, concVars>>

AuthorizeSkipped ==
    /\ pc = "process"
    /\ pc' = "dispatch"
    /\ UNCHANGED <<client, call, request, response, result, trace,
                   urlVars, methodVars, concVars>>

\* ProcessRequest: client.Credentials.AuthorizeRequest(request); the call of a method
\* of the nil interface is a run-time panic
Authorize ==
    /\ pc = "process"
    /\ IF client.Credentials = NilCredentials
       THEN /\ pc' = "panicked"
            /\ UNCHANGED <<request, trace>>
       ELSE /\ pc' = "dispatch"
            /\ request' = AuthorizeRequest(client.Credentials, request)
            /\ trace' = [trace EXCEPT !.authorized = @ + 1]
    /\ UNCHANGED <<client, call, response, result, urlVars, methodVars, concVars>>

DispatchFailsRetries(cause) ==
    /\ pc = "dispatch"
    /\ trace.dispatched < 2
    /\ pc' = IF trace.dispatched = 0 THEN "dispatch" ELSE "done"
    /\ trace' = [trace EXCEPT !.dispatched = @ + 1]
    /\ result' = [value |-> NilValue, err |-> [type |-> "errorString",
                                              msg |-> <<"dispatching request: ">> \o cause,
                                              ptr |-> NilValue]]
    /\ UNCHANGED <<client, call, request, response, urlVars, methodVars, concVars>>

\* ProcessRequest: client.GetHttpClient().Do(request) fails
DispatchFails(cause) ==
    /\ pc = "dispatch"
    /\ pc' = "done"
    /\ trace' = [trace EXCEPT !.dispatched = @ + 1]
    /\ result' = [value |-> NilValue, err |-> Errorf("dispatching request: ", cause)]
    /\ UNCHANGED <<client, call, request, response, urlVars, methodVars, concVars>>

\* ProcessRequest: client.GetHttpClient().Do(request) returns a response
Dispatch(resp) ==
    /\ pc = "dispatch"
    /\ pc' = "handle"
    /\ trace' = [trace EXCEPT !.dispatched = @ + 1]
    /\ response' = resp
    /\ UNCHANGED <<client, call, request, result, urlVars, methodVars, concVars>>

\* ProcessRequest: handleResponse and the return; InvokeVoidEndpoint keeps only the error
HandleResponse ==
    /\ pc = "handle"
    /\ LET o == processResponse(response, call.T) IN
       /\ result' = [value |-> IF call.entry = "InvokeVoidEndpoint" THEN NilValue ELSE o.value,
                     err |-> o.err]
       /\ trace' = [trace EXCEPT !.bodyRead = o.bodyRead, !.decoded = o.decoded]
    /\ pc' = "done"
    /\ UNCHANGED <<client, call, request, response, urlVars, methodVars, concVars>>

\* the caller has the result; the client is ready for the next invocation
Return ==
    /\ pc = "done"
    /\ pc' = "idle"
    /\ call' = NoCall
    /\ request' = NoRequest
    /\ response' = NoResponse
    /\ result' = NoResult
    /\ trace' = NoTrace
    /\ UNCHANGED <<client, urlVars, methodVars, concVars>>

Next ==
    \/ \E entry \in {"InvokeEndpoint", "InvokeVoidEndpoint"}, path \in Paths,
          method \in {Str("GET"), Str("PUT"), <<"G", " ", "T">>},
          body \in {NilBody, NilPointerBody, UnsupportedBody,
                    StructBody([NoFields EXCEPT !["id"] = JNum(7)])} :
              Invoke(entry, method, path, body)
    \/ \E ownerID \in OwnerIDs, external \in BOOLEAN :
          GetOwnedServers(NoReceiver, ownerID, external)
    \/ \E req \in CallerRequests : CallProcessRequest(req)
    \/ Authorize
    \/ \E cause \in TransportErrors : DispatchFails(cause)
    \/ \E resp \in Responses : Dispatch(resp)
    \/ HandleResponse
    \/ Return

Spec == Init /\ [][Next]_vars

(***************************************************************************)
(* GetEndpointURL on its own, over base URLs and endpoints that differ     *)
(* only in their slashes                                                   *)
(***************************************************************************)

InitURL ==
    /\ client = NewClient
    /\ pc = "idle"
    /\ call = NoCall
    /\ request = NoRequest
    /\ response = NoResponse
    /\ result = NoResult
    /\ trace = NoTrace
    /\ urlPc = "call"
    /\ urlIn \in {[scheme |-> s, host |-> h, basePath |-> p, endpoint |-> e] :
                     s \in {<<"h","t","t","p">>, <<"h","t","t","p","s">>},
                     h \in {<<"h">>, <<"1",".","2",":","8","0">>},
                     p \in {q \in StringsUpTo({"/", "v"}, MaxBasePathLen) :
                                 q = <<>> \/ q[1] = "/"},
                     e \in StringsUpTo({"/", "a", "b"}, MaxEndpointLen)}
    /\ urlOut = NoURLResult
    /\ got = NoGot
    /\ server = NoServer
    /\ frozen = NoFrozen
    /\ other = IdleInvocation
    /\ running = 1

\* (&Client{BaseURL: b}).GetEndpointURL(e)
ResolveURL ==
    /\ urlPc = "call"
    /\ urlPc' = "returned"
    \* the base URL the caller configured: scheme "://" host [":" port] path
    /\ urlOut' = GetEndpointURL(
           [NewClient EXCEPT !.BaseURL = urlIn.scheme \o <<":", "/", "/">>
                                           \o urlIn.host \o urlIn.basePath],
           urlIn.endpoint)
    /\ UNCHANGED <<pipelineVars, urlIn, methodVars, concVars>>

SpecURL == InitURL /\ [][ResolveURL]_vars

(***************************************************************************)
(* The accessors of the client and the methods of Server, called on their  *)
(* own                                                                     *)
(***************************************************************************)
\* a server of either declaration (nested cost in server.go, flat FreezeCost in
\* the other), with every combination of a null, zero and positive value
Servers ==
    {[variant |-> v, FrozenAt |-> t,
      Cost |-> [Base |-> 10, Freeze |-> IF v = "nested" THEN f ELSE Null(FALSE, 0)],
      FreezeCost |-> IF v = "flat" THEN f ELSE Null(FALSE, 0)] :
        v \in {"nested", "flat"},
        t \in {Null(FALSE, 0), Null(TRUE, 0), Null(TRUE, 100)},
        f \in {Null(FALSE, 0), Null(TRUE, 0), Null(TRUE, 5)}}

\* clients as NewClient and NewClientWithCredentials build them, and with the
\* exported fields BaseURL and HttpClient assigned afterwards
InitMethods ==
    /\ client \in {[c EXCEPT !.BaseURL = b, !.HttpClient = h] :
                       c \in {NewClient}
                             \cup {NewClientWithCredentials(cr) : cr \in CredentialsSet},
                       b \in {<<>>, LocalBaseURL, DefaultBaseURL},
                       h \in {NIL, "custom http.Client"}}
    /\ pc = "idle"
    /\ call = NoCall
    /\ request = NoRequest
    /\ response = NoResponse
    /\ result = NoResult
    /\ trace = NoTrace
    /\ urlPc = "off"
    /\ urlIn = NoURLCall
    /\ urlOut = NoURLResult
    /\ got = NoGot
    /\ server \in Servers
    /\ frozen = NoFrozen
    /\ other = IdleInvocation
    /\ running = 1

\* client.GetBaseURL()
CallGetBaseURL ==
    /\ "GetBaseURL" \notin got.called
    /\ got' = [got EXCEPT !.called = @ \cup {"GetBaseURL"}, !.baseURL = GetBaseURL(client)]
    /\ UNCHANGED <<pipelineVars, urlVars, server, frozen, concVars>>

\* client.GetCredentials()
CallGetCredentials ==
    /\ "GetCredentials" \notin got.called
    /\ got' = [got EXCEPT !.called = @ \cup {"GetCredentials"},
                          !.credentials = GetCredentials(client)]
    /\ UNCHANGED <<pipelineVars, urlVars, server, frozen, concVars>>

\* client.GetHttpClient()
CallGetHttpClient ==
    /\ "GetHttpClient" \notin got.called
    /\ got' = [got EXCEPT !.called = @ \cup {"GetHttpClient"},
                          !.httpClient = GetHttpClient(client)]
    /\ UNCHANGED <<pipelineVars, urlVars, server, frozen, concVars>>

\* server.IsFrozenByUser()
CallIsFrozenByUser ==
    /\ ~frozen.called
    /\ frozen' = [called |-> TRUE, value |-> IsFrozenByUser(server)]
    /\ UNCHANGED <<pipelineVars, urlVars, got, server, concVars>>

NextMethods ==
    \/ CallGetBaseURL
    \/ CallGetCredentials
    \/ CallGetHttpClient
    \/ CallIsFrozenByUser

SpecMethods == InitMethods /\ [][NextMethods]_vars

(***************************************************************************)
(* Two invocations in flight on one client. The variables pc .. trace      *)
(* describe the invocation that takes the next step, `other` holds the     *)
(* invocation that waits; Switch hands the processor to the other one, at  *)
(* any point.                                                              *)
(***************************************************************************)


InitConc ==
    /\ client \in (
            {NewClientWithCredentials(NewPersistentToken(id, tok)) :
                 id \in UUIDs, tok \in AccessTokens}
            \cup {[Credentials |-> EmptyCredentials, BaseURL |-> b, HttpClient |-> NIL] :
                      b \in {LocalBaseURL, MalformedBaseURL}})
    /\ pc = "idle"
    /\ call = NoCall
    /\ request = NoRequest
    /\ response = NoResponse
    /\ result = NoResult
    /\ trace = NoTrace
    /\ urlPc = "off"
    /\ urlIn = NoURLCall
    /\ urlOut = NoURLResult
    /\ got = NoGot
    /\ server = NoServer
    /\ frozen = NoFrozen
    /\ other = IdleInvocation
    /\ running = 1

\* the invocation the variables pc .. trace describe
Current == [pc |-> pc, call |-> call, request |-> request, response |-> response,
            result |-> result, trace |-> trace]

\* the scheduler runs the other invocation
Switch ==
    /\ other' = Current
    /\ pc' = other.pc
    /\ call' = other.call
    /\ request' = other.request
    /\ response' = other.response
    /\ result' = other.result
    /\ trace' = other.trace
    /\ running' = 3 - running
    /\ UNCHANGED <<client, urlVars, methodVars>>

NextConc ==
    \/ \E method \in {Str("GET"), Str("PUT")}, path \in Paths,
          body \in {NilBody, StructBody([NoFields EXCEPT !["id"] = JNum(7)])} :
            Invoke(IF body = NilBody THEN "InvokeEndpoint" ELSE "InvokeVoidEndpoint",
                   method, path, body)
    \/ \E ownerID \in {1}, external \in {TRUE} :
          GetOwnedServers(NoReceiver, ownerID, external)
    \/ \E req \in {r \in CallerRequests : r.Method = Str("GET")} : CallProcessRequest(req)
    \/ Authorize
    \/ \E cause \in {<<"context deadline exceeded">>} : DispatchFails(cause)
    \/ \E resp \in {r \in Responses :
                       /\ r.readErr = <<>>
                       /\ r.StatusCode \in {200, 404}
                       /\ r.Header \in {NoHeader,
                                        [NoHeader EXCEPT !["Content-Type"] = <<ApplicationJSON>>]}
                       /\ r.Body \in {Object([NoFields EXCEPT !["id"] = JNum(1)]), ErrorBody}} :
          Dispatch(resp)
    \/ HandleResponse
    \/ Return
    \/ Switch

SpecConc == InitConc /\ [][NextConc]_vars

(***************************************************************************)
(* The endpoint wrappers: every method of the client and of the entities   *)
(* that invokes an endpoint, called by a caller, one at a time             *)
(***************************************************************************)

\* the entities a caller holds: their ID is all the wrappers read
Entities == {[ID |-> id] : id \in OwnerIDs}
\* limits *Resources and load *NodeLoad: a nil pointer or a pointer to a value
ResourcesArgs == {NilPointerBody, StructBody([NoFields EXCEPT !["memory"] = JNum(7)])}
NodeLoadArgs == {NilPointerBody, StructBody([NoFields EXCEPT !["load"] = JNum(3)])}


InitWrappers ==
    /\ client \in (
            {NewClientWithCredentials(NewPersistentToken(NilUUID, tok)) : tok \in AccessTokens}
            \cup {[Credentials |-> EmptyCredentials, BaseURL |-> b, HttpClient |-> NIL] :
                      b \in {LocalBaseURL, MalformedBaseURL}})
    /\ pc = "idle"
    /\ call = NoCall
    /\ request = NoRequest
    /\ response = NoResponse
    /\ result = NoResult
    /\ trace = NoTrace
    /\ urlPc = "off"
    /\ urlIn = NoURLCall
    /\ urlOut = NoURLResult
    /\ got = NoGot
    /\ server = NoServer
    /\ frozen = NoFrozen
    /\ other = IdleInvocation
    /\ running = 1

NextWrappers ==
    \/ GetServers(NoReceiver)
    \/ \E id \in OwnerIDs : GetServer(NoReceiver, id)
    \/ \E id \in OwnerIDs : BlockServer(NoReceiver, id)
    \/ \E id \in OwnerIDs : UnblockServer(NoReceiver, id)
    \/ \E id \in OwnerIDs : GetExternalServer(NoReceiver, id)
    \/ \E id \in OwnerIDs : GetServerPricing(NoReceiver, id)
    \/ \E id \in OwnerIDs : GetNode(NoReceiver, id)
    \/ GetNodes(NoReceiver)
    \/ \E id \in OwnerIDs : GetNodeLimits(NoReceiver, id)
    \/ \E id \in OwnerIDs, limits \in ResourcesArgs : UpdateNodeLimits(NoReceiver, id, limits)
    \/ \E id \in OwnerIDs : GetNodeLoad(NoReceiver, id)
    \/ \E id \in OwnerIDs, load \in NodeLoadArgs : UpdateNodeLoad(NoReceiver, id, load)
    \/ GetPayments(NoReceiver)
    \/ \E id \in OwnerIDs : GetUserPayments(NoReceiver, id)
    \/ \E id \in OwnerIDs :
          CreatePayment(NoReceiver, id, StructBody([NoFields EXCEPT !["amount"] = JNum(5)]))
    \/ \E id \in OwnerIDs : GetUser(NoReceiver, id)
    \/ GetCurrentUser(NoReceiver)
    \/ \E id \in OwnerIDs, external \in BOOLEAN : GetOwnedServers(NoReceiver, id, external)
    \/ \E s \in Entities : ServerGetExternalServer(s)
    \/ \E s \in Entities : ServerGetPricing(s)
    \/ \E s \in Entities : ServerBlock(s)
    \/ \E s \in Entities : ServerUnblock(s)
    \/ \E n \in Entities : NodeGetLimits(n)
    \/ \E n \in Entities, limits \in ResourcesArgs : NodeUpdateLimits(n, limits)
    \/ \E n \in Entities : NodeGetLoad(n)
    \/ \E n \in Entities, load \in NodeLoadArgs : NodeUpdateLoad(n, load)
    \/ \E u \in Entities, external \in BOOLEAN : UserGetOwnedServers(u, external)
    \/ Authorize
    \/ \E cause \in TransportErrors : DispatchFails(cause)
    \/ \E resp \in {r \in Responses :
                       /\ r.readErr = <<>>
                       /\ r.StatusCode \in {200, 404, 500}
                       /\ r.Header \in {NoHeader,
                                        [NoHeader EXCEPT !["Content-Type"] = <<ApplicationJSON>>]}
                       /\ r.Body \in {Object([NoFields EXCEPT !["id"] = JNum(1)]),
                                      Doc("array"), ErrorBody}} :
          Dispatch(resp)
    \/ HandleResponse
    \/ Return

SpecWrappers == InitWrappers /\ [][NextWrappers]_vars

(***************************************************************************)
(* Properties                                                              *)
(***************************************************************************)
\* the segments of a path: what lies between its slashes
RECURSIVE Segments(_)
Segments(s) ==
    IF s = <<>> THEN <<>>
    ELSE IF Head(s) = "/" THEN Segments(Tail(s))
    ELSE LET k == Index(s, "/")
             n == IF k = 0 THEN Len(s) ELSE k - 1
         IN <<SubSeq(s, 1, n)>> \o Segments(Tail0(s, n))

RECURSIVE SlashJoined(_)
SlashJoined(segs) ==
    IF segs = <<>> THEN <<>> ELSE <<"/">> \o Head(segs) \o SlashJoined(Tail(segs))

\* C1: for every base URL with or without trailing slashes and every endpoint of at least
\* one segment with or without leading and trailing slashes, GetEndpointURL returns no
\* error and the URL made of the base's scheme, host and port and of the base path's
\* segments followed by the endpoint's segments, each after a single slash, with no
\* trailing slash; the result therefore depends on the segments only.
C1_EndpointURLNormalized ==
    (urlPc = "returned" /\ Segments(urlIn.endpoint) # <<>>) =>
        /\ urlOut.err = NoError
        /\ urlOut.url = urlIn.scheme \o <<":", "/", "/">> \o urlIn.host
                        \o SlashJoined(Segments(urlIn.basePath) \o Segments(urlIn.endpoint))

C1_Witness ==
    /\ urlPc = "returned"
    /\ urlIn.basePath = <<"/", "v", "/">>
    /\ urlIn.endpoint = <<"/", "a", "/", "b">>
    /\ urlIn.host = <<"1", ".", "2", ":", "8", "0">>
    /\ urlOut.url = <<"h","t","t","p",":","/","/","1",".","2",":","8","0","/","v","/","a","/","b">>

\* C2: a client whose Credentials field is unset goes through ProcessRequest as a client
\* with EmptyCredentials does: the authorization step leaves the request as it was built
\* and the invocation goes on to dispatch it.
C2_NilCredentialsAsEmpty ==
    [][(pc = "process" /\ client.Credentials = NilCredentials) =>
          (pc' = "dispatch" /\ request' = AuthorizeRequest(EmptyCredentials, request))]_vars

\* C3: the authorization step with a PersistentToken (I, S) leaves the request with
\* Authorization = "Persistent " + I.String() and X-Access-Token = S and changes no other
\* header, nor the method, the URL or the body; with EmptyCredentials it changes nothing.
C3_AuthorizeSetsOnlyItsHeaders ==
    [][(pc = "process" /\ pc' = "dispatch") =>
          /\ client.Credentials.kind = "PersistentToken" =>
                /\ HeaderGet(request'.Header, "Authorization")
                       = <<"Persistent", " ">> \o UUIDString(client.Credentials.ID)
                /\ HeaderGet(request'.Header, "X-Access-Token") = client.Credentials.AccessToken
                /\ Len(request'.Header["Authorization"]) = 1
                /\ Len(request'.Header["X-Access-Token"]) = 1
                /\ \A k \in HeaderNames \ {"Authorization", "X-Access-Token"} :
                       request'.Header[k] = request.Header[k]
                /\ request'.Method = request.Method
                /\ request'.URL = request.URL
                /\ request'.Body = request.Body
          /\ client.Credentials.kind = "EmptyCredentials" => request' = request]_vars

C3_Witness ==
    /\ pc = "dispatch"
    /\ call.entry = "ProcessRequest"
    /\ client.Credentials.kind = "PersistentToken"
    /\ request.Header["Accept"] = << <<"*/*">> >>
    /\ request.Header["Authorization"] =
           << <<"Persistent", " ", "a","b","0","0","0","0","0","0","-","0","0","0","0","-",
                "0","0","0","0","-","0","0","0","0","-",
                "0","0","0","0","0","0","0","0","0","0","0","9">> >>
    /\ request.Header["X-Access-Token"] = << <<"c2VjcmV0">> >>

\* a response came back and the invocation has returned
Returned == pc = "done" /\ trace.dispatched = 1 /\ response # NoResponse

IsErrorBody(body) ==
    /\ body.kind = "object"
    /\ \A f \in DOMAIN ShapeOf("ErrorResponse") :
           body.fields[f].t # "absent" /\ Fits(body.fields[f], ShapeOf("ErrorResponse")[f])

Carries(msg, text) == \E i \in 1..Len(msg) : \E j \in 1..Len(text) : msg[i] = text[j]

\* C4: a 400..499 response with a JSON error body makes the invocation return a nil value
\* and an error that is an ErrorResponse whose error name, message, path, status and
\* timestamp are those of the body.
C4_TypedRequestError ==
    (/\ Returned
     /\ response.StatusCode \in 400..499
     /\ response.readErr = <<>>
     /\ getContentType(response) = ApplicationJSON
     /\ IsErrorBody(response.Body)) =>
        /\ result.value = NilValue
        /\ result.err.type = "*ErrorResponse"
        /\ ~result.err.ptr.isNil
        /\ \A f \in {"error", "message", "path", "status"} :
               result.err.ptr.fields[f] = response.Body.fields[f]
        /\ result.err.ptr.fields["timestamp"]
               = GoTime(ParseRFC3339(response.Body.fields["timestamp"].s))

\* the body does not parse as the error shape: malformed or ill-shaped JSON, a declared
\* content type other than JSON, or no declared content type
Unparsable(resp) ==
    \/ getContentType(resp) # ApplicationJSON
    \/ Unmarshal(resp.Body, "ErrorResponse").err # <<>>

\* C5: a 400..499 response whose body does not parse as the error shape makes the
\* invocation return a nil value and a generic error that carries the response's status
\* line; it does not return an ErrorResponse and does not panic.
C5_FallbackCarriesStatusLine ==
    (/\ pc \in {"done", "panicked"}
     /\ trace.dispatched = 1
     /\ response.StatusCode \in 400..499
     /\ Unparsable(response)) =>
        /\ pc = "done"
        /\ result.value = NilValue
        /\ result.err.type = "errorString"
        /\ Carries(result.err.msg, response.Status)

\* C6: a response with a status of 500 or more makes the invocation return a nil value and
\* the server-fault error carrying the status line, and its body is neither read nor
\* decoded, whatever the content type and the body are.
C6_ServerFaultWithoutDecoding ==
    (Returned /\ response.StatusCode >= 500) =>
        /\ result.value = NilValue
        /\ result.err = Errorf("handling response: ",
                               <<"internal server error: ">> \o response.Status)
        /\ ~trace.bodyRead
        /\ ~trace.decoded

C6_Witness ==
    /\ Returned
    /\ response.StatusCode = 503
    /\ getContentType(response) = ApplicationJSON
    /\ response.Body = ErrorBody
    /\ result.err.msg = <<"handling response: ", "internal server error: ",
                          "503 Service Unavailable">>

\* C7: a response with a status below 400, Content-Type application/json and a body that
\* is an object of the expected shape makes InvokeEndpoint (and ProcessRequest) return a
\* nil error and the value whose fields are those of the body, the absent ones zero;
\* when the expected shape is a list, a body that is an array gives a nil error and a
\* non-nil value.
C7_SuccessDecodesValue ==
  /\ (/\ Returned
      /\ call.T = "[]Server"
      /\ response.StatusCode < 400
      /\ response.readErr = <<>>
      /\ getContentType(response) = ApplicationJSON
      /\ response.Body.kind = "array") =>
        /\ result.err = NoError
        /\ ~result.value.isNil
  /\
    (/\ Returned
     /\ call.entry \in {"InvokeEndpoint", "ProcessRequest"}
     /\ call.T = "Entity"
     /\ response.StatusCode < 400
     /\ response.readErr = <<>>
     /\ getContentType(response) = ApplicationJSON
     /\ response.Body.kind = "object"
     /\ response.Body.fields["id"].t \in {"num", "absent"}
     /\ response.Body.fields["name"].t \in {"str", "absent"}) =>
        /\ result.err = NoError
        /\ ~result.value.isNil
        /\ result.value.fields["id"]
               = (IF response.Body.fields["id"].t = "num" THEN response.Body.fields["id"]
                  ELSE JNum(0))
        /\ result.value.fields["name"]
               = (IF response.Body.fields["name"].t = "str" THEN response.Body.fields["name"]
                  ELSE JStr(<<>>))

C7_Witness ==
    /\ Returned
    /\ call.entry = "InvokeEndpoint"
    /\ response.StatusCode = 302
    /\ response.Body = Object([NoFields EXCEPT !["id"] = JNum(1)])
    /\ result.err = NoError
    /\ result.value.fields["id"].n = 1

\* C8 as stated: a response with a status below 400 and an empty or absent Content-Type
\* makes the invocation return a nil value and a nil error, whatever the body.
C8_Original ==
    (Returned /\ response.StatusCode < 400 /\ getContentType(response) = <<>>) =>
        result = NoResult

\* C8: a response with a status below 400 and an empty or absent Content-Type makes the
\* invocation return a nil value and a nil error when its body is read to the end, whatever
\* the body holds, and a nil value and the read error when reading the body fails.
C8_NoValueSuccess ==
    (Returned /\ response.StatusCode < 400 /\ getContentType(response) = <<>>) =>
        IF response.readErr = <<>>
        THEN result = NoResult
        ELSE /\ result.value = NilValue
             /\ result.err = Errorf("handling response: ",
                                    <<"reading response body: ">> \o response.readErr)

C8_Witness ==
    /\ Returned
    /\ call.entry = "InvokeVoidEndpoint"
    /\ response.StatusCode = 200
    /\ response.Header = NoHeader
    /\ response.Body = ErrorBody
    /\ result = NoResult

\* C9 as stated: a response with a status below 400 whose Content-Type is neither empty nor
\* exactly application/json makes the invocation return a nil value and the
\* unsupported-content-type error naming it, and the body is not decoded.
C9_Original ==
    (Returned /\ response.StatusCode < 400
              /\ getContentType(response) \notin {<<>>, ApplicationJSON}) =>
        /\ result.value = NilValue
        /\ result.err = Errorf("handling response: ",
                               <<"unsupported content type: ">>
                               \o Quote(getContentType(response)))
        /\ ~trace.decoded

\* C9: a response with a status below 400 whose Content-Type is neither empty nor exactly
\* application/json is never decoded and makes the invocation return a nil value with, when
\* its body is read to the end, the unsupported-content-type error naming the content
\* type, and, when reading the body fails, the read error.
C9_UnsupportedContentType ==
    (Returned /\ response.StatusCode < 400
              /\ getContentType(response) \notin {<<>>, ApplicationJSON}) =>
        /\ result.value = NilValue
        /\ ~trace.decoded
        /\ result.err = Errorf("handling response: ",
                               IF response.readErr = <<>>
                               THEN <<"unsupported content type: ">>
                                    \o Quote(getContentType(response))
                               ELSE <<"reading response body: ">> \o response.readErr)

C9_Witness ==
    /\ Returned
    /\ response.StatusCode = 200
    /\ getContentType(response) = <<"application/json; charset=utf-8">>
    /\ response.Body = Object([NoFields EXCEPT !["id"] = JNum(1)])
    /\ result.err.msg = <<"handling response: ", "unsupported content type: ", "\"",
                          "application/json; charset=utf-8", "\"">>

\* C10: whatever path the invocation took, what it returns is never a non-nil value
\* together with a non-nil error.
C10_NoValueWithError ==
    pc = "done" => (result.value.isNil \/ result.err = NoError)

C10_Witness ==
    /\ Returned
    /\ response.StatusCode = 200
    /\ response.Body = Object([NoFields EXCEPT !["id"] = JStr(<<"one">>),
                                               !["name"] = JStr(<<"web">>)])
    /\ trace.decoded
    /\ result.value.isNil
    /\ result.err # NoError


(***************************************************************************)
(* C11: an invocation dispatches its request to the transport at most      *)
(* once: a dispatch happens only when none has happened, whatever status   *)
(* a response carries; when the dispatch fails the invocation returns,     *)
(* without any further dispatch, a nil value and the error "dispatching    *)
(* request: " followed by the text of the transport's error.               *)
(***************************************************************************)
DispatchFailed == pc = "done" /\ trace.dispatched >= 1 /\ response = NoResponse

C11_AtMostOneDispatch ==
    /\ trace.dispatched <= 1
    /\ pc \in {"idle", "process", "dispatch"} => trace.dispatched = 0
    /\ pc = "handle" => trace.dispatched = 1
    /\ DispatchFailed =>
          /\ result.value = NilValue
          /\ \E cause \in TransportErrors :
                result.err = [type |-> "errorString",
                              msg |-> <<"dispatching request: ">> \o cause, ptr |-> NilValue]

C11_Witness ==
    /\ DispatchFailed
    /\ trace.authorized = 1
    /\ result.err.msg = <<"dispatching request: ", "context deadline exceeded">>

(***************************************************************************)
(* C12: no failure is reported as success. An invocation through           *)
(* InvokeEndpoint or InvokeVoidEndpoint that has returned after a failure  *)
(* (base URL that does not parse, body that cannot be serialized, method   *)
(* that makes no request, failed dispatch, status of 400 or more, or a     *)
(* response below 400 whose body cannot be read, whose content type is     *)
(* neither absent nor application/json, or whose JSON does not decode)     *)
(* has returned a non-nil error.                                           *)
(***************************************************************************)
\* the body is no JSON document that json.Unmarshal accepts for the struct T
Undecodable(body, T) ==
    \/ body.kind \in {"empty", "malformed"}
    \/ body.kind = "array" /\ ~IsSlice(T)
    \/ body.kind = "object" /\ IsSlice(T)
    \/ /\ body.kind = "object"
       /\ \E f \in DOMAIN ShapeOf(T) :
             /\ body.fields[f].t \notin {"absent", "null"}
             /\ \/ ShapeOf(T)[f] = "num" /\ body.fields[f].t # "num"
                \/ ShapeOf(T)[f] = "str" /\ body.fields[f].t # "str"

BuildFailure ==
    \/ client.BaseURL \in MalformedBaseURLs
    \/ call.body = UnsupportedBody
    \/ \E i \in 1..Len(call.method) : call.method[i] = " "

ResponseFailure ==
    /\ response # NoResponse
    /\ \/ response.StatusCode >= 400
       \/ response.readErr # <<>>
       \/ getContentType(response) \notin {<<>>, ApplicationJSON}
       \/ /\ getContentType(response) = ApplicationJSON
          /\ Undecodable(response.Body, call.T)

C12_FailureIsAnError ==
    pc = "done" /\ call.entry \in {"InvokeEndpoint", "InvokeVoidEndpoint"}
                /\ (BuildFailure \/ DispatchFailed \/ ResponseFailure)
      => result.err # NoError /\ result.err.type # "nil"

C12_Witness ==
    /\ pc = "done"
    /\ call.entry = "InvokeVoidEndpoint"
    /\ call.body = UnsupportedBody
    /\ trace.dispatched = 0
    /\ result.err.msg = <<"making request body reader: ", "json: unsupported type">>

(***************************************************************************)
(* C13: the request InvokeEndpoint / InvokeVoidEndpoint builds carries the *)
(* header Content-Type: application/json and a body stream holding the     *)
(* JSON serialization of the body argument exactly when the body argument  *)
(* is not nil; with a nil body argument it has no Content-Type header and  *)
(* no body stream. The body argument here is the `any` that InvokeEndpoint *)
(* receives: a nil pointer stored in it is a supplied value, serialized as *)
(* null.                                                                   *)
(***************************************************************************)
\* encoding/json of the body argument
Serialized(body) == IF body.kind = "nilptr" THEN Doc("null") ELSE Object(body.fields)

RequestBuilt ==
    /\ call.entry \in {"InvokeEndpoint", "InvokeVoidEndpoint"}
    /\ pc \in {"process", "dispatch", "handle", "done", "panicked"}
    /\ request # NoRequest

C13_BodyIffContentType ==
    RequestBuilt =>
        IF call.body # NilBody
        THEN /\ request.Header["Content-Type"] = <<ApplicationJSON>>
             /\ request.Body = [isNil |-> FALSE, doc |-> Serialized(call.body)]
        ELSE /\ request.Header["Content-Type"] = <<>>
             /\ request.Body = NoReader

C13_Witness ==
    /\ RequestBuilt
    /\ pc = "dispatch"
    /\ call.method = Str("PUT")
    /\ call.body = StructBody([NoFields EXCEPT !["id"] = JNum(7)])
    /\ request.Header["Content-Type"] = <<ApplicationJSON>>
    /\ request.Body.doc.fields["id"] = JNum(7)

(***************************************************************************)
(* C14 as stated: with a base URL that does not parse, GetEndpointURL      *)
(* fails and InvokeEndpoint returns, with a nil value, the very error that *)
(* GetEndpointURL produced.                                                *)
(***************************************************************************)
MalformedBaseReturned ==
    /\ pc = "done"
    /\ call.entry \in {"InvokeEndpoint", "InvokeVoidEndpoint"}
    /\ client.BaseURL \in MalformedBaseURLs

C14_Original ==
    MalformedBaseReturned =>
        /\ GetEndpointURL(client, call.path).err # NoError
        /\ result.value = NilValue
        /\ result.err = GetEndpointURL(client, call.path).err

(***************************************************************************)
(* C14: with a base URL that does not parse, GetEndpointURL fails with the *)
(* error "parsing url: " followed by the parser's cause; InvokeEndpoint    *)
(* builds no request, dispatches nothing and returns a nil value with a    *)
(* new error whose text is "making endpoint URL: " followed by the text of *)
(* GetEndpointURL's error.                                                 *)
(***************************************************************************)
ParseCause(base) ==
    IF base = MalformedBaseURL THEN "missing protocol scheme" ELSE "invalid port after host"

C14_URLErrorWrapped ==
    MalformedBaseReturned =>
        /\ GetEndpointURL(client, call.path) =
              [url |-> <<>>,
               err |-> [type |-> "errorString",
                        msg |-> <<"parsing url: ", ParseCause(client.BaseURL)>>,
                        ptr |-> NilValue]]
        /\ result.value = NilValue
        /\ result.err = [type |-> "errorString",
                         msg |-> <<"making endpoint URL: ", "parsing url: ",
                                   ParseCause(client.BaseURL)>>,
                         ptr |-> NilValue]
        /\ request = NoRequest
        /\ trace.authorized = 0 /\ trace.dispatched = 0

C14_Witness ==
    /\ MalformedBaseReturned
    /\ client.BaseURL = BadPortBaseURL
    /\ call.entry = "InvokeEndpoint"
    /\ result.err.msg = <<"making endpoint URL: ", "parsing url: ", "invalid port after host">>

(***************************************************************************)
(* C15: on a client built by NewClient or NewClientWithCredentials,        *)
(* GetBaseURL returns DefaultBaseURL when the BaseURL field is empty and   *)
(* the configured base URL otherwise; GetCredentials returns the           *)
(* EmptyCredentials strategy when the Credentials field is nil and the     *)
(* configured strategy otherwise.                                          *)
(***************************************************************************)
C15_AccessorDefaults ==
    /\ "GetBaseURL" \in got.called =>
          /\ client.BaseURL = <<>> => got.baseURL = DefaultBaseURL
          /\ client.BaseURL # <<>> => got.baseURL = client.BaseURL
          /\ got.baseURL # <<>>
    /\ "GetCredentials" \in got.called =>
          /\ client.Credentials.kind = "nil" => got.credentials = EmptyCredentials
          /\ client.Credentials.kind # "nil" => got.credentials = client.Credentials
          /\ got.credentials.kind # "nil"

C15_Witness ==
    /\ client = NewClient
    /\ got.called = {"GetBaseURL", "GetCredentials", "GetHttpClient"}
    /\ got.baseURL = DefaultBaseURL
    /\ got.credentials = EmptyCredentials

(***************************************************************************)
(* C17: for both variants of the Server shape, IsFrozenByUser returns true *)
(* exactly when FrozenAt is present and the freeze cost (Cost.Freeze in    *)
(* the nested variant, FreezeCost in the flat one) is present, whatever    *)
(* the values they hold; the call leaves the Server as it was.             *)
(***************************************************************************)
FreezeCostOf(s) == IF s.variant = "nested" THEN s.Cost.Freeze ELSE s.FreezeCost

C17_FrozenByUser ==
    [][frozen' # frozen =>
         /\ frozen'.called
         /\ frozen'.value = (server.FrozenAt.Valid /\ FreezeCostOf(server).Valid)
         /\ server' = server]_vars

C17_Witness ==
    /\ frozen = [called |-> TRUE, value |-> TRUE]
    /\ server.variant = "nested"
    /\ server.FrozenAt = Null(TRUE, 100)
    /\ server.Cost.Freeze = Null(TRUE, 0)

(***************************************************************************)
(* C16: the request that GetOwnedServers(ownerID, external) builds is a    *)
(* GET whose URL has the path <base path>/users/<ownerID>/servers and the  *)
(* query external=<external>: the query is the query component of the URL  *)
(* that reaches the transport, not a part of its path.                     *)
(***************************************************************************)
BasePathOf(c) == IF c.BaseURL = <<>> THEN <<"/", "v", "1">> ELSE <<"/", "v", "3">>

C16_QueryReachesTransport ==
    (/\ call.wrapper.name = "GetOwnedServers"
     /\ pc \in {"process", "dispatch", "handle", "done", "panicked"}
     /\ request # NoRequest) =>
        \E ownerID \in OwnerIDs, external \in BOOLEAN :
            /\ call.path = OwnedServersPath(ownerID, external)
            /\ request.Method = Str("GET")
            /\ request.URL.Path = BasePathOf(client) \o <<"/", "u", "s", "e", "r", "s", "/">>
                                   \o Itoa(ownerID) \o <<"/", "s", "e", "r", "v", "e", "r", "s">>
            /\ request.URL.RawQuery = <<"e", "x", "t", "e", "r", "n", "a", "l", "=">>
                                       \o FormatBool(external)

(***************************************************************************)
(* C18: with two invocations in flight on one client, under every          *)
(* interleaving of their steps: no step changes the client's BaseURL,      *)
(* Credentials or HttpClient; a step of one invocation leaves the request, *)
(* response and result of the other untouched; and the request each        *)
(* invocation sends and the outcome it returns are those of the same       *)
(* invocation run alone on that client with the same answer of the         *)
(* transport.                                                              *)
(***************************************************************************)
\* the request the invocation sends when it runs alone
AloneRequest(c, inv, b) ==
    IF inv.call.entry = "ProcessRequest"
    THEN inv.request = AuthorizeRequest(c.Credentials, inv.request)
    ELSE inv.request = AuthorizeRequest(c.Credentials, b.req)

\* the outcome of the invocation when it runs alone and the transport answers the same
AloneResult(inv, b, o) ==
    IF inv.call.entry # "ProcessRequest" /\ b.err # NoError
    THEN inv.result = [value |-> NilValue, err |-> b.err]
    ELSE IF inv.response = NoResponse
    THEN \E cause \in TransportErrors :
            inv.result = [value |-> NilValue,
                          err |-> [type |-> "errorString",
                                   msg |-> <<"dispatching request: ">> \o cause,
                                   ptr |-> NilValue]]
    ELSE inv.result = [value |-> IF inv.call.entry = "InvokeVoidEndpoint"
                                 THEN NilValue ELSE o.value,
                       err |-> o.err]

AsAlone(c, inv) ==
    /\ inv.pc \in {"dispatch", "handle"} =>
          AloneRequest(c, inv, buildRequest(c, inv.call.method, inv.call.path, inv.call.body))
    /\ inv.pc = "done" =>
          AloneResult(inv, buildRequest(c, inv.call.method, inv.call.path, inv.call.body),
                      processResponse(inv.response, inv.call.T))

C18_NoCrossCallState ==
    /\ [](AsAlone(client, Current) /\ AsAlone(client, other))
    /\ [][/\ client' = client
          /\ running' = running => other' = other
          /\ running' # running => other' = Current /\ Current' = other]_vars

C18_Witness ==
    /\ pc = "done" /\ other.pc = "done"
    /\ call.wrapper.name = "GetOwnedServers" /\ other.call.entry = "InvokeVoidEndpoint"
    /\ response.StatusCode = 200 /\ other.response.StatusCode = 404
    /\ result.err = NoError /\ other.result.err # NoError
    /\ request.URL # other.request.URL

(***************************************************************************)
(* C19: the credential strategy is applied to the request exactly once and *)
(* before the dispatch: the request is dispatched only after one           *)
(* application, carries what the strategy set, and no further application  *)
(* follows; an invocation whose URL resolution, body serialization or      *)
(* request creation fails returns its error with no application and no     *)
(* dispatch.                                                               *)
(***************************************************************************)
C19_CredentialsBeforeDispatch ==
    /\ trace.authorized <= 1
    /\ trace.dispatched >= 1 => trace.authorized = 1
    /\ pc \in {"dispatch", "handle"} =>
          /\ trace.authorized = 1
          /\ request = AuthorizeRequest(client.Credentials, request)
          /\ client.Credentials.kind = "PersistentToken" =>
                request.Header["X-Access-Token"] = <<client.Credentials.AccessToken>>
    /\ pc = "done" /\ request # NoRequest => trace.authorized = 1
    /\ (pc = "done" /\ call.entry \in {"InvokeEndpoint", "InvokeVoidEndpoint"}
                    /\ BuildFailure) =>
          /\ result.err # NoError
          /\ request = NoRequest
          /\ trace.authorized = 0
          /\ trace.dispatched = 0

C19_Witness ==
    /\ pc = "handle"
    /\ call.entry = "InvokeEndpoint"
    /\ client.Credentials.kind = "PersistentToken"
    /\ trace.authorized = 1 /\ trace.dispatched = 1
    /\ request.Header["Authorization"] # <<>>
    /\ request.Header["X-Access-Token"] = <<client.Credentials.AccessToken>>

(***************************************************************************)
(* C20: a response with a status below 400 and Content-Type                *)
(* application/json whose body json.Unmarshal rejects for the expected     *)
(* shape T (an empty body, malformed JSON, an array for a struct, an       *)
(* object for a list, a field of the wrong JSON type) makes the invocation *)
(* return a nil value and the error "handling response: parsing response   *)
(* body: " followed by the decoder's cause; InvokeVoidEndpoint, whose      *)
(* shape is the empty struct, does so for every body that is not an object *)
(* or null.                                                                *)
(***************************************************************************)
DecoderCause(body, T) ==
    CASE body.kind = "empty" -> "unexpected end of JSON input"
      [] body.kind = "malformed" -> "invalid character"
      [] body.kind = "array" -> "json: cannot unmarshal array into Go value"
      [] body.kind = "object" /\ IsSlice(T) -> "json: cannot unmarshal object into Go value"
      [] OTHER -> "json: cannot unmarshal field into Go struct field"

JSONBelow400 ==
    /\ Returned
    /\ response.StatusCode < 400
    /\ response.readErr = <<>>
    /\ getContentType(response) = ApplicationJSON

C20_DecodeError ==
    /\ (JSONBelow400 /\ Undecodable(response.Body, call.T)) =>
          /\ result.value = NilValue
          /\ result.err = [type |-> "errorString",
                           msg |-> <<"handling response: ", "parsing response body: ",
                                     DecoderCause(response.Body, call.T)>>,
                           ptr |-> NilValue]
          /\ trace.bodyRead /\ trace.decoded
    /\ (JSONBelow400 /\ call.entry = "InvokeVoidEndpoint") =>
          (result.err = NoError <=> response.Body.kind \in {"object", "null"})

C20_Witness ==
    /\ JSONBelow400
    /\ call.entry = "InvokeVoidEndpoint"
    /\ response.StatusCode = 200
    /\ response.Body = Doc("empty")
    /\ result.err.msg = <<"handling response: ", "parsing response body: ",
                           "unexpected end of JSON input">>

(***************************************************************************)
(* C21: every endpoint wrapper makes one pipeline invocation with the verb *)
(* fixed for it, a path built only from its identifier arguments and the   *)
(* body it was given, and returns what that invocation returns; every      *)
(* method of an entity calls the method of the client with the entity's    *)
(* own ID.                                                                 *)
(***************************************************************************)
VerbOf(name) ==
    IF name \in {"BlockServer", "CreatePayment"} THEN Str("POST")
    ELSE IF name = "UnblockServer" THEN Str("DELETE")
    ELSE IF name \in {"UpdateNodeLimits", "UpdateNodeLoad"} THEN Str("PUT")
    ELSE Str("GET")

\* the endpoint template of the wrapper, filled with the identifier
TemplateOf(name, id) ==
    CASE name = "GetServers" -> Str("/servers")
      [] name = "GetServer" -> Str("/servers") \o <<"/">> \o id
      [] name \in {"BlockServer", "UnblockServer"} -> Str("/servers") \o <<"/">> \o id \o Str("/blocking")
      [] name = "GetExternalServer" -> Str("/servers") \o <<"/">> \o id \o Str("/external")
      [] name = "GetServerPricing" -> Str("/servers") \o <<"/">> \o id \o Str("/pricing")
      [] name = "GetNodes" -> Str("/nodes")
      [] name = "GetNode" -> Str("/nodes") \o <<"/">> \o id
      [] name \in {"GetNodeLimits", "UpdateNodeLimits"} -> Str("/nodes") \o <<"/">> \o id \o Str("/limits")
      [] name \in {"GetNodeLoad", "UpdateNodeLoad"} -> Str("/nodes") \o <<"/">> \o id \o Str("/load")
      [] name = "GetPayments" -> Str("/payments")
      [] name \in {"GetUserPayments", "CreatePayment"} -> Str("/users") \o <<"/">> \o id \o Str("/payments")
      [] name \in {"GetUser", "GetCurrentUser"} -> Str("/users") \o <<"/">> \o id
      [] name = "GetOwnedServers" -> Str("/users") \o <<"/">> \o id \o Str("/servers")

\* the method of the client an entity method delegates to
DelegateOf(method) ==
    CASE method = "Server.GetExternalServer" -> "GetExternalServer"
      [] method = "Server.GetPricing" -> "GetServerPricing"
      [] method = "Server.Block" -> "BlockServer"
      [] method = "Server.Unblock" -> "UnblockServer"
      [] method = "Node.GetLimits" -> "GetNodeLimits"
      [] method = "Node.UpdateLimits" -> "UpdateNodeLimits"
      [] method = "Node.GetLoad" -> "GetNodeLoad"
      [] method = "Node.UpdateLoad" -> "UpdateNodeLoad"
      [] method = "User.GetOwnedServers" -> "GetOwnedServers"

WrapperMapped(w) ==
    /\ call.method = VerbOf(w.name)
    /\ call.body = w.body
    /\ call.entry = (IF w.name \in {"BlockServer", "UnblockServer"}
                     THEN "InvokeVoidEndpoint" ELSE "InvokeEndpoint")
    /\ w.name = "GetCurrentUser" => w.id = CurrentUserReference
    /\ w.from # NoReceiver => w.name = DelegateOf(w.from.method) /\ w.id = Itoa(w.from.ID)
    /\ trace.dispatched <= 1
    /\ pc = "done" /\ response # NoResponse =>
          result.err = processResponse(response, call.T).err

C21_WrappersMapOneToOne ==
    call.wrapper # NoWrapper =>
        /\ WrapperMapped(call.wrapper)
        /\ call.path = TemplateOf(call.wrapper.name, call.wrapper.id)

\* every wrapper but GetOwnedServers
C21_OtherWrappers ==
    call.wrapper # NoWrapper /\ call.wrapper.name # "GetOwnedServers" =>
        /\ WrapperMapped(call.wrapper)
        /\ call.path = TemplateOf(call.wrapper.name, call.wrapper.id)

\* GetOwnedServers: everything holds but the path, which also holds the flag
C21_OwnedServers ==
    call.wrapper.name = "GetOwnedServers" =>
        /\ WrapperMapped(call.wrapper)
        /\ call.path = TemplateOf("GetOwnedServers", call.wrapper.id)
                        \o <<"?", "e", "x", "t", "e", "r", "n", "a", "l", "=">>
                        \o FormatBool(call.wrapper.external)

(***************************************************************************)
(* C22: when an invocation returns after the transport answered, the body  *)
(* of the response has been closed, whatever the status, the content type  *)
(* and the outcome of the decoding.                                        *)
(***************************************************************************)
C22_ResponseBodyClosed ==
    pc = "done" /\ trace.dispatched = 1 /\ response # NoResponse => trace.bodyClosed

(***************************************************************************)
(* C23: the request of a wrapper called with a nil pointer as its body     *)
(* argument (UpdateNodeLimits(id, nil), UpdateNodeLoad(id, nil) and the    *)
(* entity methods that delegate to them) has no body stream and no         *)
(* Content-Type header, as the request of an invocation without a body.    *)
(***************************************************************************)
C23_NilPointerBodyIsAbsent ==
    (/\ call.wrapper.body = NilPointerBody
     /\ pc \in {"process", "dispatch", "handle", "done", "panicked"}
     /\ request # NoRequest) =>
        /\ request.Header["Content-Type"] = <<>>
        /\ request.Body = NoReader

====
